---- MODULE Spec2Model ----
(***************************************************************************)
(* A model of the stroke-maps analysis core: nearest-unit catchment        *)
(* (stroke_maps/catchment.py), transfer-unit resolution                    *)
(* (stroke_maps/units.py), the scenario combiner (classes/combine.py) and  *)
(* the periphery flags, area colours and diff-scenario columns of          *)
(* stroke_maps/geo.py.                                                     *)
(*                                                                         *)
(* Tables (pandas DataFrames) are records [index, rows] or functions from  *)
(* row label to a record of cells.  A missing cell (NaN / pd.NA) of a      *)
(* numeric column is the empty tuple <<>> and a present value t is <<t>>;  *)
(* a missing cell of a string column is the string NA.                     *)
(***************************************************************************)
EXTENDS Integers, Sequences, FiniteSets, TLC

VARIABLES
    pc,                      \* position of the run: "start", "done", "raised", ...
    df_time_lsoa_to_units,   \* lsoa_travel_time_matrix_calibrated.csv: [lsoa -> [unit -> minutes]]
    df_units,                \* self.df_units: sequence of unit rows
    lsoa_catchment_type,     \* self.lsoa_catchment_type
    limit_to_england,        \* self.limit_to_england
    limit_to_wales,          \* self.limit_to_wales
    teams_to_limit,          \* the candidate list handed to find_lsoa_catchment
    df_catchment,            \* the table find_lsoa_catchment returned
    df_lsoa,                 \* self.df_lsoa, stored by calculate_lsoa_catchment
    regions_lsoa_ew,         \* regions_lsoa_ew.csv: [lsoa -> lsoa_code, region_code, region_type]
    df_stroke_teams,         \* the unit table handed to calculate_transfer_units
    df_time_inter_hospital,  \* inter_hospital_time_calibrated.csv: [from unit -> [to unit -> minutes]]
    df_nearest_mt,           \* the table calculate_transfer_units returned
    dict_scenario_df_to_merge,  \* the dict handed to _hstack_multiple_dataframes, in its order
    cols_for_scenario,       \* its argument cols_for_scenario: [all] for a str, else [cols]
    add_use_column,          \* its argument add_use_column
    data,                    \* the table _hstack_multiple_dataframes returned
    df_units_combined,       \* the combined unit table handed to make_new_periphery_data
    df_lsoa_combined,        \* the combined LSOA table handed to make_new_periphery_data
    df_regions,              \* the region table make_new_periphery_data fills in
    gdf                      \* the table handed to assign_colours_to_regions or create_combo_cols

catchmentVars == <<df_time_lsoa_to_units, df_units, lsoa_catchment_type,
                   limit_to_england, limit_to_wales, teams_to_limit,
                   df_catchment, df_lsoa, regions_lsoa_ew>>

unitsVars == <<df_stroke_teams, df_time_inter_hospital, df_nearest_mt>>

combineVars == <<dict_scenario_df_to_merge, cols_for_scenario, add_use_column, data>>

geoVars == <<df_units_combined, df_lsoa_combined, df_regions, gdf>>

vars == <<pc, catchmentVars, unitsVars, combineVars, geoVars>>

\* What the actions of one component leave alone.
notCatchment == <<unitsVars, combineVars, geoVars>>
notUnits == <<catchmentVars, combineVars, geoVars>>
notCombine == <<catchmentVars, unitsVars, geoVars>>
notGeo == <<catchmentVars, unitsVars, combineVars>>

(***************************************************************************)
(* Bounds of the model.                                                    *)
(***************************************************************************)
MaxUnits == 2      \* stroke units that are columns of the travel matrices
MaxLsoa == 1       \* LSOAs (rows of the LSOA travel matrix)
MaxTime == 2       \* travel times are drawn from 1..MaxTime
MaxRegions == 2    \* regions (SICBL / LHB)
MaxCandidates == 3 \* longest candidate list handed to find_lsoa_catchment
MaxScenarios == 2  \* scenario tables handed to the combiner
MaxRows == 1       \* row labels of the scenario tables
MaxValue == 1      \* outcome values of the combined table are drawn from 0..MaxValue
MaxAreas == 3      \* rows of the table handed to assign_colours_to_regions

NA == "<NA>"
Null == <<>>
Some(t) == <<t>>

Postcode(i) == "U" \o ToString(i)
UnitIds == {Postcode(i) : i \in 1..MaxUnits}
\* A postcode that is no column (and no row) of the travel matrices.
UnknownPostcode == "ZZ"
AllPostcodes == UnitIds \cup {UnknownPostcode}
LsoaName(i) == "a" \o ToString(i)
Lsoas == {LsoaName(i) : i \in 1..MaxLsoa}
RegionCode(i) == "R" \o ToString(i)
Regions == {RegionCode(i) : i \in 1..MaxRegions}
Times == 1..MaxTime
Flags == {0, 1}

\* The rows of a table file in file order.
LsoaFileOrder == [i \in 1..MaxLsoa |-> LsoaName(i)]
\* The columns of the travel matrix files in file order.
MatrixColumns == [i \in 1..MaxUnits |-> Postcode(i)]

Range(s) == {s[i] : i \in DOMAIN s}
\* Every order in which the elements of S can be listed.
Orderings(S) == {s \in [1..Cardinality(S) -> S] : Range(s) = S}
\* The non-empty lists of at most n elements of S (repeats allowed).
ListsUpTo(S, n) == UNION {[1..k -> S] : k \in 1..n}
\* The subsequence of s whose elements satisfy Keep, in order.
RECURSIVE SelectIn(_, _)
SelectIn(s, K) ==
    IF s = <<>> THEN <<>>
    ELSE IF Head(s) \in K THEN <<Head(s)>> \o SelectIn(Tail(s), K)
    ELSE SelectIn(Tail(s), K)

(***************************************************************************)
(* catchment.py: find_each_lsoa_chosen_unit                                *)
(***************************************************************************)
\* DataFrame.min(axis='columns') of one row over the columns cols.
RowMin(row, cols) ==
    CHOOSE t \in {row[cols[i]] : i \in DOMAIN cols} :
        \A j \in DOMAIN cols : t <= row[cols[j]]

\* A column position that does not hold the first occurrence of the minimum:
\* the last occurrence.
RowArgMinLast(row, cols) ==
    CHOOSE i \in DOMAIN cols :
        /\ row[cols[i]] = RowMin(row, cols)
        /\ \A j \in DOMAIN cols : j > i => row[cols[j]] # RowMin(row, cols)

\* DataFrame.idxmin(axis='columns'): the position of the first occurrence of
\* the minimum in column order.
RowArgMin(row, cols) ==
    CHOOSE i \in DOMAIN cols :
        /\ row[cols[i]] = RowMin(row, cols)
        /\ \A j \in DOMAIN cols : j < i => row[cols[j]] # RowMin(row, cols)

RowTime(row, cols) == RowMin(row, cols)

\* df is [index, columns, data]; the result has one row per LSOA.
find_each_lsoa_chosen_unit(df) ==
    [index |-> df.index,
     rows |-> [l \in Range(df.index) |->
        [unit_travel_time |-> RowTime(df.data[l], df.columns),
         unit_postcode |-> df.columns[RowArgMin(df.data[l], df.columns)]]]]

(***************************************************************************)
(* catchment.py: find_lsoa_catchment                                       *)
(***************************************************************************)
\* pd.read_csv(lsoa_travel_time_matrix_calibrated.csv, index_col='LSOA')
ReadLsoaMatrix(times) ==
    [index |-> LsoaFileOrder, columns |-> MatrixColumns, data |-> times]

KeyError == [error |-> "KeyError"]
IsError(r) == "error" \in DOMAIN r

\* The column selection skipped: every column of the matrix is kept.
KeepAllColumns(df, teams) == df

\* df[teams]: the columns of df listed in teams, in that order.
SelectColumns(df, teams) ==
    IF \E i \in DOMAIN teams : teams[i] \notin Range(df.columns)
    THEN KeyError
    ELSE [df EXCEPT !.columns = teams]

find_lsoa_catchment(times, teams) ==
    LET df0 == ReadLsoaMatrix(times)
        df == IF Len(teams) > 0 THEN SelectColumns(df0, teams) ELSE df0
    IN  IF IsError(df) THEN df ELSE find_each_lsoa_chosen_unit(df)

(***************************************************************************)
(* catchment.py: limit_lsoa_catchment_to_selected_units                    *)
(***************************************************************************)
IndexingError == [error |-> "IndexingError"]

\* Lines 179-193: the rows kept and the 'selected' column before the country
\* masks.  regions and units are the sets of codes in the two lists.
LimitRows(df, lookup, regions) ==
    IF Cardinality(regions) > 0
    THEN SelectIn(df.index, {l \in Range(df.index) : lookup[l].region_code \in regions})
    ELSE df.index

LimitSelected(df, l, regions, units) ==
    IF Cardinality(regions) > 0 THEN 1
    ELSE IF Cardinality(units) > 0
         THEN (IF df.rows[l].unit_postcode \in units THEN 1 ELSE 0)
         ELSE 1

\* Lines 196-201: the country mask is a boolean Series of regions_lsoa_ew.csv
\* with its default integer index, used to index the 'selected' Series whose
\* index is the LSOA name; pandas cannot align the two and raises
\* IndexingError unless the catchment table has no rows.
limit_lsoa_catchment_to_selected_units(df, lookup, regions, units, england, wales) ==
    LET index == LimitRows(df, lookup, regions)
        out == [index |-> index,
                rows |-> [l \in Range(index) |->
                    [unit_postcode |-> df.rows[l].unit_postcode,
                     unit_travel_time |-> df.rows[l].unit_travel_time,
                     lsoa_code |-> lookup[l].lsoa_code,
                     selected |-> LimitSelected(df, l, regions, units)]]]
    IN  IF (england \/ wales) /\ Len(index) > 0 THEN IndexingError ELSE out

(***************************************************************************)
(* catchment.py: calculate_lsoa_catchment                                  *)
(***************************************************************************)
UnitRows(units, col) == {i \in DOMAIN units : units[i][col] = 1}
regions_selected(units) == {units[i].region_code : i \in UnitRows(units, "selected")}
units_selected(units) == {units[i].postcode : i \in UnitRows(units, "selected")}
teams_with_services(units) == {units[i].postcode : i \in UnitRows(units, "use_ivt")}

regions_to_limit(units, type) ==
    IF type = "island" THEN regions_selected(units) ELSE {}

\* Line 73: list(set(...)) lists the set in the iteration order of a Python
\* set of str, which follows the per-process hash seed: any order.
TeamsToLimitOrders(units) ==
    Orderings(teams_with_services(units) \cup units_selected(units))

\* The result of the run for one listing order of teams_to_limit: the table to
\* store in self.df_lsoa, or the exception raised.
calculate_lsoa_catchment(order) ==
    LET found == find_lsoa_catchment(df_time_lsoa_to_units, order)
    IN  IF IsError(found) THEN found
        ELSE limit_lsoa_catchment_to_selected_units(
                found, regions_lsoa_ew,
                regions_to_limit(df_units, lsoa_catchment_type),
                units_selected(df_units),
                limit_to_england, limit_to_wales)

(***************************************************************************)
(* Inputs                                                                  *)
(***************************************************************************)
LsoaMatrices == [Lsoas -> [UnitIds -> Times]]

UnitRow(p, sel, ivt, region) ==
    [postcode |-> p, selected |-> sel, use_ivt |-> ivt, region_code |-> region]

\* Unit i lies in region ((i - 1) mod MaxRegions) + 1, LSOA i likewise.
HomeRegion(i) == RegionCode(((i - 1) % MaxRegions) + 1)
\* The first region is Welsh (LHB), the others English (SICBL).
RegionType(r) == IF r = RegionCode(1) THEN "LHB" ELSE "SICBL"

\* Unit tables with one row per unit of the matrix, in file order.
UnitTables ==
    {[i \in 1..MaxUnits |-> UnitRow(Postcode(i), f[i][1], f[i][2], HomeRegion(i))] :
        f \in [1..MaxUnits -> Flags \X Flags]}

LsoaLookup ==
    [l \in Lsoas |->
        LET i == CHOOSE k \in 1..MaxLsoa : LsoaName(k) = l
        IN  [lsoa_code |-> "E" \o ToString(i),
             region_code |-> HomeRegion(i),
             region_type |-> RegionType(HomeRegion(i))]]

NoTable == [index |-> <<>>, rows |-> <<>>]

CatchmentIdle ==
    /\ df_time_lsoa_to_units = [l \in Lsoas |-> [u \in UnitIds |-> 1]]
    /\ df_units = <<>>
    /\ lsoa_catchment_type = "other"
    /\ limit_to_england = FALSE
    /\ limit_to_wales = FALSE
    /\ teams_to_limit = <<>>
    /\ df_catchment = NoTable
    /\ df_lsoa = NoTable
    /\ regions_lsoa_ew = LsoaLookup

NoData == [index |-> <<>>, columns |-> <<>>, cells |-> <<>>]

CombineInputsIdle ==
    /\ dict_scenario_df_to_merge = <<>>
    /\ cols_for_scenario = [all |-> TRUE, cols |-> <<>>]
    /\ add_use_column = FALSE

CombineIdle ==
    /\ CombineInputsIdle
    /\ data = NoData

NoFrame == [index |-> <<>>, columns |-> <<>>]

PeripheryIdle ==
    /\ df_units_combined = NoFrame
    /\ df_lsoa_combined = NoFrame
    /\ df_regions = NoFrame

GeoIdle ==
    /\ PeripheryIdle
    /\ gdf = NoFrame

(***************************************************************************)
(* units.py: calculate_transfer_units                                      *)
(***************************************************************************)
ValueError == [error |-> "ValueError"]

\* Lines 36-37: the postcodes of the rows offering MT, in row order.
mt_hospital_names(teams) ==
    LET OffersMt(r) == r.use_mt = 1
        rows == SelectSeq(teams, OffersMt)
    IN  [i \in DOMAIN rows |-> rows[i].postcode]

\* The override of a unit without IVT left as the caller gave it.
KeepOverride(r) == r

\* Lines 42-43: a unit that does not offer IVT gets the placeholder 'none'.
PlaceholderIfNoIvt(r) ==
    IF r.use_ivt = 1 THEN r ELSE [r EXCEPT !.transfer_unit_postcode = "none"]

MarkUnitsWithoutIvt(teams) == [i \in DOMAIN teams |-> PlaceholderIfNoIvt(teams[i])]

\* load_data.travel_time_matrix_units()
ReadInterHospitalMatrix(times) ==
    [index |-> MatrixColumns, columns |-> MatrixColumns, data |-> times]

\* The nearest-hub search run over every column of the matrix instead of the
\* columns of the MT units.
ReduceToAllColumns(df, names) == df

\* Line 51: the matrix reduced to the columns of the MT units.
ReduceToMtColumns(df, names) == SelectColumns(df, names)

\* Lines 57-63: per matrix row the smallest time over the MT columns and the
\* column holding it; idxmin over no columns raises ValueError.
NearestMt(df) ==
    IF Len(df.columns) = 0 THEN ValueError
    ELSE [index |-> df.index,
          rows |-> [u \in Range(df.index) |->
             [transfer_unit_travel_time |-> Some(RowMin(df.data[u], df.columns)),
              transfer_unit_postcode |-> df.columns[RowArgMin(df.data[u], df.columns)]]]]

\* Lines 68-74: right merge on the postcodes of the unit table: one row per
\* unit of the table, in its order, empty for a unit the matrix has no row for.
MergeOntoTeams(nearest, teams) ==
    LET index == [i \in DOMAIN teams |-> teams[i].postcode]
    IN  [index |-> index,
         rows |-> [p \in Range(index) |->
            IF p \in Range(nearest.index) THEN nearest.rows[p]
            ELSE [transfer_unit_travel_time |-> Null, transfer_unit_postcode |-> NA]]]

SetTransfer(out, unit, transfer_unit, mt_time) ==
    [out EXCEPT !.rows[unit] = [transfer_unit_travel_time |-> mt_time,
                                transfer_unit_postcode |-> transfer_unit]]

\* Lines 85-88, 94-95: 'none' becomes a missing unit and a missing time.
NoneTransfer(out, unit) == SetTransfer(out, unit, NA, Null)

\* An override written with the time of the nearest hub left in place.
OverrideKeepTime(out, df, unit, transfer_unit) ==
    SetTransfer(out, unit, transfer_unit, out.rows[unit].transfer_unit_travel_time)

\* Lines 91, 94-95: the override and the matrix time from the unit to it.
OverrideTransfer(out, df, unit, transfer_unit) ==
    SetTransfer(out, unit, transfer_unit, Some(df.data[unit][transfer_unit]))

\* Lines 83-95: the loop over the rows whose override is not 'nearest'.  The
\* lookup of line 91 raises KeyError, which nothing catches, when the unit is
\* no row of the matrix or the override no column of the reduced matrix.
RECURSIVE UpdateFeederUnits(_, _, _)
UpdateFeederUnits(out, todo, df) ==
    IF todo = <<>> THEN out
    ELSE LET unit == Head(todo).postcode
             transfer_unit == Head(todo).transfer_unit_postcode
         IN  IF transfer_unit = "none"
             THEN UpdateFeederUnits(NoneTransfer(out, unit), Tail(todo), df)
             ELSE IF unit \notin Range(df.index) \/ transfer_unit \notin Range(df.columns)
             THEN KeyError
             ELSE UpdateFeederUnits(
                    OverrideTransfer(out, df, unit, transfer_unit), Tail(todo), df)

calculate_transfer_units(input, times) ==
    LET teams == MarkUnitsWithoutIvt(input)
        df == ReduceToMtColumns(ReadInterHospitalMatrix(times), mt_hospital_names(teams))
        NotNearest(r) == r.transfer_unit_postcode # "nearest"
    IN  IF IsError(df) THEN df
        ELSE LET nearest == NearestMt(df)
             IN  IF IsError(nearest) THEN nearest
                 ELSE UpdateFeederUnits(MergeOntoTeams(nearest, teams),
                                        SelectSeq(teams, NotNearest), df)

(***************************************************************************)
(* SpecUnits: calculate_transfer_units on any unit table.                  *)
(***************************************************************************)
TeamRow(p, ivt, mt, override) ==
    [postcode |-> p, use_ivt |-> ivt, use_mt |-> mt, transfer_unit_postcode |-> override]

Overrides == {"nearest", "none"} \cup AllPostcodes

\* One row per unit of the matrix, in file order, with any services and override.
MatrixTeamTables ==
    {[i \in 1..MaxUnits |-> TeamRow(Postcode(i), f[i][1], f[i][2], f[i][3])] :
        f \in [1..MaxUnits -> Flags \X Flags \X Overrides]}

\* Rows for a unit the travel matrix does not know.
UnknownTeamRows ==
    {TeamRow(UnknownPostcode, ivt, 0, o) : ivt \in Flags, o \in {"nearest", "none"}}
        \cup {TeamRow(UnknownPostcode, 1, 1, "nearest")}

TeamTables ==
    MatrixTeamTables \cup {Append(t, r) : t \in MatrixTeamTables, r \in UnknownTeamRows}

\* Every unit offers IVT and keeps the default 'nearest'; any set of MT units.
DefaultTeamTables ==
    {[i \in 1..MaxUnits |-> TeamRow(Postcode(i), 1, mt[i], "nearest")] :
        mt \in [1..MaxUnits -> Flags]}

InterHospitalMatrices == [UnitIds -> [UnitIds -> Times]]

UnitIndex(u) == CHOOSE i \in 1..MaxUnits : Postcode(i) = u

\* One matrix with zero on the diagonal and both tied and distinct times off it.
InterHospitalExample ==
    [u \in UnitIds |-> [v \in UnitIds |->
        IF u = v THEN 0 ELSE 1 + ((UnitIndex(u) + UnitIndex(v)) % MaxTime)]]

UnitsIdle ==
    /\ df_stroke_teams = <<>>
    /\ df_time_inter_hospital = InterHospitalExample
    /\ df_nearest_mt = NoTable

InitUnits ==
    /\ pc = "start"
    /\ \/ /\ df_stroke_teams \in TeamTables
          /\ df_time_inter_hospital = InterHospitalExample
       \/ /\ df_stroke_teams \in DefaultTeamTables
          /\ df_time_inter_hospital \in InterHospitalMatrices
    /\ df_nearest_mt = NoTable
    /\ CatchmentIdle
    /\ CombineIdle
    /\ GeoIdle

CalculateTransferUnits ==
    /\ pc = "start"
    /\ LET result == calculate_transfer_units(df_stroke_teams, df_time_inter_hospital)
       IN  IF IsError(result)
           THEN pc' = "raised" /\ UNCHANGED df_nearest_mt
           ELSE pc' = "done" /\ df_nearest_mt' = result
    /\ UNCHANGED <<df_stroke_teams, df_time_inter_hospital, notUnits>>

NextUnits == CalculateTransferUnits

SpecUnits == InitUnits /\ [][NextUnits]_vars

(***************************************************************************)
(* combine.py: Combine._hstack_multiple_dataframes                         *)
(*                                                                         *)
(* A scenario table is [index, columns, data]: the set of its row labels,  *)
(* the list of its column names and data[row][column].  Scenario names are *)
(* S1, S2, ... whose lexicographic order is the order of their numbers.    *)
(* The index of each table is taken as it is (extra_cols_for_index = []).  *)
(***************************************************************************)
ScenarioName(i) == "S" \o ToString(i)
ScenarioNames == {ScenarioName(i) : i \in 1..MaxScenarios}
RowIds == 1..MaxRows
NoIndexError == "no error"
IndexError == "IndexError"

\* The position of a top-level column label in sorted (np.unique) order:
\* 'any' sorts before S1 < S2 < ...
NameRank(name) ==
    IF name = "any" THEN 0 ELSE CHOOSE i \in 1..MaxScenarios : ScenarioName(i) = name

\* The names of S as a list in ascending order.
RECURSIVE SortedNames(_)
SortedNames(S) ==
    IF S = {} THEN <<>>
    ELSE LET first == CHOOSE n \in S : \A m \in S : NameRank(n) <= NameRank(m)
         IN  <<first>> \o SortedNames(S \ {first})

\* The row labels of S as a list in ascending order.
RECURSIVE SortedRows(_)
SortedRows(S) ==
    IF S = {} THEN <<>>
    ELSE LET first == CHOOSE r \in S : \A q \in S : r <= q
         IN  <<first>> \o SortedRows(S \ {first})

\* Lines 470-490: whether the lookup of target among the columns finds a
\* column; indexing the empty match raises IndexError.
find_multiindex_col(columns, target) ==
    IF target \in Range(columns) THEN NoIndexError ELSE IndexError

\* df.drop(cols, axis='columns')
DropColumns(df, cols) ==
    [df EXCEPT !.columns = SelectIn(df.columns, Range(df.columns) \ Range(cols))]

\* Line 369: the columns are split when their number differs from the number
\* of columns named for the scenario (never for cols_for_scenario a str).
split_for_any(cfs, df) == ~cfs.all /\ Len(cfs.cols) # Len(df.columns)

\* Lines 390-401: df.assign(Use=1)
AssignUse(df) ==
    [df EXCEPT !.columns = IF "Use" \in Range(df.columns) THEN df.columns
                           ELSE Append(df.columns, "Use"),
               !.data = [r \in df.index |->
                    [c \in Range(df.columns) \cup {"Use"} |->
                        IF c = "Use" THEN 1 ELSE df.data[r][c]]]]

\* Lines 378-383: the 'any' entry is made in the first pass of the loop, from
\* the table of the first scenario of the dict.
AnyEntry(merged, df, cfs) ==
    IF Len(merged) < 1
    THEN <<[key |-> "any", df |-> DropColumns(df, cfs.cols)]>>
    ELSE merged

\* Lines 356-405: one pass of the loop over the dict; the result is the
\* error raised, if any, and dfs_to_merge as a list of (key, table).
HstackStep(merged, entry, cfs, use) ==
    LET df == entry.df
        split == split_for_any(cfs, df)
        missing == split /\ \E i \in DOMAIN cfs.cols :
                        find_multiindex_col(df.columns, cfs.cols[i]) = IndexError
        merged1 == IF split THEN AnyEntry(merged, df, cfs) ELSE merged
        df1 == IF split THEN [df EXCEPT !.columns = cfs.cols] ELSE df
        df2 == IF use THEN AssignUse(df1) ELSE df1
    IN  IF missing
        THEN [error |-> IndexError, merged |-> merged]
        ELSE [error |-> NoIndexError,
              merged |-> Append(merged1, [key |-> entry.name, df |-> df2])]

RECURSIVE HstackLoop(_, _, _, _)
HstackLoop(merged, todo, cfs, use) ==
    IF todo = <<>> THEN [error |-> NoIndexError, merged |-> merged]
    ELSE LET step == HstackStep(merged, Head(todo), cfs, use)
         IN  IF step.error = IndexError THEN step
             ELSE HstackLoop(step.merged, Tail(todo), cfs, use)

\* The columns (key, column) of the concatenated table, in the order of
\* dfs_to_merge.
RECURSIVE ConcatColumns(_)
ConcatColumns(merged) ==
    IF merged = <<>> THEN <<>>
    ELSE [i \in DOMAIN Head(merged).df.columns |->
                <<Head(merged).key, Head(merged).df.columns[i]>>]
            \o ConcatColumns(Tail(merged))

EntryOf(merged, key) == merged[CHOOSE i \in DOMAIN merged : merged[i].key = key]

\* Lines 408-412: pd.concat(axis='columns', keys=...): the rows are the union
\* of the rows of the tables, a cell of a row a table lacks is missing.
Concat(merged) ==
    LET columns == ConcatColumns(merged)
        index == UNION {merged[i].df.index : i \in DOMAIN merged}
    IN  [index |-> index,
         columns |-> columns,
         cells |-> [col \in Range(columns) |-> [r \in index |->
            LET df == EntryOf(merged, col[1]).df
            IN  IF r \in df.index THEN Some(df.data[r][col[2]]) ELSE Null]]]

TopLevel(columns) == {columns[i][1] : i \in DOMAIN columns}

\* The columns of the groups listed in order, group by group.
RECURSIVE ColumnsInGroupOrder(_, _)
ColumnsInGroupOrder(columns, order) ==
    IF order = <<>> THEN <<>>
    ELSE LET InGroup(col) == col[1] = Head(order)
         IN  SelectSeq(columns, InGroup) \o ColumnsInGroupOrder(columns, Tail(order))

\* Lines 414-422: with an 'any' group the groups are put in the order 'any',
\* then the other names sorted (np.unique); without one cols.remove('any')
\* raises ValueError and the columns stay in the order of the dict.
MoveAnyToFarLeft(columns) ==
    IF "any" \in TopLevel(columns)
    THEN ColumnsInGroupOrder(columns,
            <<"any">> \o SortedNames(TopLevel(columns) \ {"any"}))
    ELSE columns

AssertionError == "AssertionError"

\* df.columns.nlevels: 1 for a plain column Index (the tables without the
\* field), the number of levels of a MultiIndex otherwise.
nlevels(df) == IF "nlevels" \in DOMAIN df THEN df.nlevels ELSE 1

\* Tables of any column depth are joined.
AnyNumberOfLevels(merged) == TRUE

\* Line 408: pd.concat with keys builds the column MultiIndex of the result
\* and raises AssertionError ("Cannot concat indices that do not have the same
\* number of levels") unless the column indexes of all the tables have the
\* same number of levels.
SameNumberOfLevels(merged) ==
    \A i, j \in DOMAIN merged : nlevels(merged[i].df) = nlevels(merged[j].df)

\* Lines 354-431.  The returned table is [index, columns, cells] with the rows
\* in sorted order (line 425).
hstack_multiple_dataframes(dict, cfs, use) ==
    LET loop == HstackLoop(<<>>, dict, cfs, use)
        table == Concat(loop.merged)
    IN  IF loop.error = IndexError THEN [error |-> IndexError]
        ELSE IF ~SameNumberOfLevels(loop.merged) THEN [error |-> AssertionError]
        ELSE [index |-> SortedRows(table.index),
              columns |-> MoveAnyToFarLeft(table.columns),
              cells |-> table.cells]

(***************************************************************************)
(* SpecCombine: _hstack_multiple_dataframes called again and again on the  *)
(* same scenario tables, the dict listing them in any order.               *)
(***************************************************************************)
ColumnLists == {<<"selected", "region">>, <<"selected">>, <<"region">>}

ScenarioTables(columns) ==
    UNION {{[index |-> I, columns |-> columns, data |-> d] :
                d \in [I -> [Range(columns) -> Flags]]} :
           I \in (SUBSET RowIds) \ {{}}}

ColsForScenario ==
    {[all |-> TRUE, cols |-> <<>>],                    \* ':' (combine_selected_lsoa)
     [all |-> FALSE, cols |-> <<"selected">>],         \* combine_selected_transfer
     [all |-> FALSE, cols |-> <<"selected", "use_ivt">>]}

InitCombine ==
    /\ pc = "start"
    /\ \E columns \in ColumnLists :
         \E t \in [1..MaxScenarios -> ScenarioTables(columns)] :
            dict_scenario_df_to_merge =
                [i \in 1..MaxScenarios |-> [name |-> ScenarioName(i), df |-> t[i]]]
    /\ cols_for_scenario \in ColsForScenario
    /\ add_use_column = FALSE     \* the default; no caller passes another value
    /\ data = NoData
    /\ CatchmentIdle
    /\ UnitsIdle
    /\ GeoIdle

HstackMultipleDataframes ==
    /\ pc \in {"start", "done"}
    /\ \E dict \in Orderings(Range(dict_scenario_df_to_merge)) :
        LET result == hstack_multiple_dataframes(dict, cols_for_scenario, add_use_column)
        IN  /\ dict_scenario_df_to_merge' = dict
            /\ IF IsError(result)
               THEN pc' = "raised" /\ UNCHANGED data
               ELSE pc' = "done" /\ data' = result
    /\ UNCHANGED <<cols_for_scenario, add_use_column, notCombine>>

NextCombine == HstackMultipleDataframes

SpecCombine == InitCombine /\ [][NextCombine]_vars

(***************************************************************************)
(* SpecCombineRows: _hstack_multiple_dataframes on scenario tables that    *)
(* hold different rows (a table may hold no row at all); each table has    *)
(* the flag column 'selected' and the numeric column 'time'.               *)
(***************************************************************************)
RowsTables ==
    UNION {{[index |-> I, columns |-> <<"selected", "time">>, data |-> d] :
                d \in [I -> [{"selected", "time"} -> Flags]]} :
           I \in SUBSET RowIds}

InitCombineRows ==
    /\ pc = "start"
    /\ \E t \in [1..MaxScenarios -> RowsTables] :
            dict_scenario_df_to_merge =
                [i \in 1..MaxScenarios |-> [name |-> ScenarioName(i), df |-> t[i]]]
    /\ cols_for_scenario \in ColsForScenario
    /\ add_use_column = FALSE
    /\ data = NoData
    /\ CatchmentIdle
    /\ UnitsIdle
    /\ GeoIdle

SpecCombineRows == InitCombineRows /\ [][NextCombine]_vars

(***************************************************************************)
(* SpecCombineDepth: _hstack_multiple_dataframes as combine_selected_lsoa  *)
(* calls it (cols_for_scenario = ':') on tables whose columns have one     *)
(* level (property) or two (property, subtype).  A column label is the     *)
(* tuple of its levels.                                                    *)
(***************************************************************************)
DepthLabels == {<<"time">>, <<"time", "mean">>, <<"time", "std">>}

DepthTables ==
    UNION {{[index |-> I, columns |-> <<label>>, nlevels |-> Len(label), data |-> d] :
                d \in [I -> [{label} -> Flags]]} :
           I \in SUBSET RowIds, label \in DepthLabels}

InitCombineDepth ==
    /\ pc = "start"
    /\ \E t \in [1..MaxScenarios -> DepthTables] :
            dict_scenario_df_to_merge =
                [i \in 1..MaxScenarios |-> [name |-> ScenarioName(i), df |-> t[i]]]
    /\ cols_for_scenario = [all |-> TRUE, cols |-> <<>>]
    /\ add_use_column = FALSE
    /\ data = NoData
    /\ CatchmentIdle
    /\ UnitsIdle
    /\ GeoIdle

SpecCombineDepth == InitCombineDepth /\ [][NextCombine]_vars

(***************************************************************************)
(* combine.py: Combine._diff_data                                          *)
(*                                                                         *)
(* The table is [index, nlevels, columns, cells]: a column label is        *)
(* <<scenario, property>> (nlevels = 2) or <<scenario, property, subtype>> *)
(* (nlevels = 3).  A scenario name is the sequence of the pieces of its    *)
(* string: <<"S1">>, <<"any">>, <<"diff_", "S1", "_minus_", "S2">>.  A     *)
(* cell is Null or Some(x) with x an integer, the square root of an        *)
(* integer that is no perfect square, or the str 'help'.                   *)
(***************************************************************************)
Real(v) == [kind |-> "int", v |-> v]
Help == [kind |-> "str", v |-> 0]

\* x.pow(0.5) of an integer n >= 0.
Sqrt(n) ==
    IF \E k \in 0..n : k * k = n
    THEN Real(CHOOSE k \in 0..n : k * k = n)
    ELSE [kind |-> "sqrt", v |-> n]

\* x.pow(2.0)
Pow2(x) == IF x.kind = "sqrt" THEN x.v ELSE x.v * x.v

AnyName == <<"any">>

\* The order of the pieces by the code point of their first characters:
\* 'S1' < 'S2' < ... < '_minus_' < 'any' < 'diff_'.
PieceRank(piece) ==
    IF piece = "_minus_" THEN MaxScenarios + 1
    ELSE IF piece = "any" THEN MaxScenarios + 2
    ELSE IF piece = "diff_" THEN MaxScenarios + 3
    ELSE CHOOSE i \in 1..MaxScenarios : ScenarioName(i) = piece

\* a < b as Python compares the two strings.
RECURSIVE NameLess(_, _)
NameLess(a, b) ==
    IF b = <<>> THEN FALSE
    ELSE IF a = <<>> THEN TRUE
    ELSE IF Head(a) = Head(b) THEN NameLess(Tail(a), Tail(b))
    ELSE PieceRank(Head(a)) < PieceRank(Head(b))

\* sorted(list(set(...)))
RECURSIVE SortedScenarios(_)
SortedScenarios(S) ==
    IF S = {} THEN <<>>
    ELSE LET first == CHOOSE n \in S : \A m \in S \ {n} : NameLess(n, m)
         IN  <<first>> \o SortedScenarios(S \ {first})

\* Lines 270-277: the top-level names of the columns, sorted, without 'any'.
scenario_name_list(df) ==
    SortedScenarios({df.columns[k][1] : k \in DOMAIN df.columns} \ {AnyName})

\* The pairs of the list with the later element first.
RECURSIVE reversed_combinations2(_)
reversed_combinations2(list) ==
    IF Len(list) < 2 THEN <<>>
    ELSE [j \in 1..(Len(list) - 1) |-> <<list[j + 1], Head(list)>>]
            \o reversed_combinations2(Tail(list))

\* Line 281: itertools.combinations(list, 2).
RECURSIVE combinations2(_)
combinations2(list) ==
    IF Len(list) < 2 THEN <<>>
    ELSE [j \in 1..(Len(list) - 1) |-> <<Head(list), list[j + 1]>>]
            \o combinations2(Tail(list))

\* Line 288: f'diff_{p0}_minus_{p1}'
diff_col_name(p0, p1) == <<"diff_">> \o p0 \o <<"_minus_">> \o p1

\* The subtypes of property c of scenario p, in column order (data0.columns).
SubtypesOf(df, p, c) ==
    LET IsOf(label) == label[1] = p /\ label[2] = c
        labels == SelectSeq(df.columns, IsOf)
    IN  [k \in DOMAIN labels |-> labels[k][3]]

\* df[p][c] raises KeyError when scenario p has no column of property c.
HasProperty(df, p, c) ==
    \E k \in DOMAIN df.columns : df.columns[k][1] = p /\ df.columns[k][2] = c

\* x - y with a missing side counted as 0 unless both sides are missing.
MinusFillZero(x, y) ==
    IF x = Null /\ y = Null THEN Null
    ELSE Some(Real((IF x = Null THEN 0 ELSE x[1].v) - (IF y = Null THEN 0 ELSE y[1].v)))

\* Line 296 / 313: x - y for nullable numbers: missing when either is missing.
Minus(x, y) ==
    IF x = Null \/ y = Null THEN Null ELSE Some(Real(x[1].v - y[1].v))

\* The std columns subtracted like the averages.
StdMinus(x, y) == Minus(x, y)

\* sqrt(x^2 + y^2) with every missing side counted as 0.
StdFillZero(x, y) ==
    LET d0 == IF x = Null THEN 0 ELSE Pow2(x[1])
        d1 == IF y = Null THEN 0 ELSE Pow2(y[1])
    IN  Some(Sqrt(d0 + d1))

\* Lines 300-303: sqrt(x^2 + y^2), a missing side counted as 0 (fill_value)
\* unless both sides are missing.
StdPropagate(x, y) ==
    IF x = Null /\ y = Null THEN Null
    ELSE LET d0 == IF x = Null THEN 0 ELSE Pow2(x[1])
             d1 == IF y = Null THEN 0 ELSE Pow2(y[1])
         IN  Some(Sqrt(d0 + d1))

\* df[label] = values: a new column goes to the right end.
SetColumn(df, label, values) ==
    [df EXCEPT !.columns = IF label \in Range(df.columns) THEN df.columns
                           ELSE Append(df.columns, label),
               !.cells = [l \in DOMAIN df.cells \cup {label} |->
                            IF l = label THEN values ELSE df.cells[l]]]

\* Lines 294-309: the diff of one subtype column.
DiffOfSubtype(df, p0, p1, c, col) ==
    [r \in Range(df.index) |->
        IF col \in {"mean", "median"}
        THEN Minus(df.cells[<<p0, c, col>>][r], df.cells[<<p1, c, col>>][r])
        ELSE IF col = "std"
        THEN StdPropagate(df.cells[<<p0, c, col>>][r], df.cells[<<p1, c, col>>][r])
        ELSE Some(Help)]

\* Lines 293-310: the loop over the subtypes of data0; data1[col] raises
\* KeyError when the other scenario lacks the subtype.
RECURSIVE DiffSubtypes(_, _, _, _, _)
DiffSubtypes(df, p0, p1, c, cols) ==
    IF cols = <<>> THEN df
    ELSE IF Head(cols) \in {"mean", "median", "std"}
            /\ <<p1, c, Head(cols)>> \notin Range(df.columns)
    THEN KeyError
    ELSE DiffSubtypes(
            SetColumn(df, <<diff_col_name(p0, p1), c, Head(cols)>>,
                      DiffOfSubtype(df, p0, p1, c, Head(cols))),
            p0, p1, c, Tail(cols))

\* Lines 286-315: one pair of scenarios and one property.  With two column
\* levels data0 is a Series, data0.columns raises AttributeError and the
\* except branch subtracts the two Series.
DiffPair(df, pair, c) ==
    LET p0 == pair[1]
        p1 == pair[2]
    IN  IF ~HasProperty(df, p0, c) \/ ~HasProperty(df, p1, c) THEN KeyError
        ELSE IF df.nlevels = 3
        THEN DiffSubtypes(df, p0, p1, c, SubtypesOf(df, p0, c))
        ELSE SetColumn(df, <<diff_col_name(p0, p1), c>>,
                [r \in Range(df.index) |->
                    Minus(df.cells[<<p0, c>>][r], df.cells[<<p1, c>>][r])])

RECURSIVE DiffPairs(_, _, _)
DiffPairs(df, pairs, c) ==
    IF pairs = <<>> THEN df
    ELSE LET next == DiffPair(df, Head(pairs), c)
         IN  IF IsError(next) THEN next ELSE DiffPairs(next, Tail(pairs), c)

RECURSIVE DiffProperties(_, _, _)
DiffProperties(df, pairs, cols) ==
    IF cols = <<>> THEN df
    ELSE LET next == DiffPairs(df, pairs, Head(cols))
         IN  IF IsError(next) THEN next ELSE DiffProperties(next, pairs, Tail(cols))

\* Lines 263-316.
diff_data(df, cols_to_diff) ==
    DiffProperties(df, combinations2(scenario_name_list(df)), cols_to_diff)

(***************************************************************************)
(* SpecDiff: _diff_data called, and called again on its own result, on a   *)
(* combined table of the raw scenarios S1, S2, ... with one property.      *)
(***************************************************************************)
\* The property the diff is requested for (one of the callers' cols_to_keep).
cols_to_keep == <<"utility_shift">>

RawScenarios == {<<ScenarioName(i)>> : i \in 1..MaxScenarios}
Subtypes == {"mean", "median", "std", "count"}
DiffProperties0 == {"utility_shift", "time"}
Values == {Null} \cup {Some(Real(v)) : v \in 0..MaxValue}

\* The label of the column of scenario name and property c: with a subtype
\* when st is one, with two levels when st is "".
Label(name, c, st) == IF st = "" THEN <<name, c>> ELSE <<name, c, st>>

\* The combined table with the cell values f[scenario][row]; with an 'any'
\* group on the far left when any is TRUE.
CombinedTable(c, st, any, f) ==
    LET raw == SortedScenarios(RawScenarios)
        scenario_columns == [k \in DOMAIN raw |-> Label(raw[k], c, st)]
        any_column == Label(AnyName, "selected", st)
    IN  [index |-> [i \in 1..MaxRows |-> i],
         nlevels |-> IF st = "" THEN 2 ELSE 3,
         columns |-> IF any THEN <<any_column>> \o scenario_columns
                     ELSE scenario_columns,
         cells |-> [label \in Range(scenario_columns) \cup
                                (IF any THEN {any_column} ELSE {}) |->
                        [r \in RowIds |->
                            IF label[1] = AnyName THEN Some(Real(1))
                            ELSE f[label[1]][r]]]]

InitDiff ==
    /\ pc = "start"
    /\ \E c \in DiffProperties0, st \in Subtypes \cup {""}, any \in BOOLEAN :
        \E f \in [RawScenarios -> [RowIds -> Values]] :
            data = CombinedTable(c, st, any, f)
    /\ CombineInputsIdle
    /\ CatchmentIdle
    /\ UnitsIdle
    /\ GeoIdle

\* One call of _diff_data; the second call is made on the table the first
\* returned.
\* Lines 310 and 314 assign the new columns into the table passed in and
\* line 316 returns that same object, so data is the caller's table before
\* and after the call.
DiffData ==
    /\ pc \in {"start", "done"}
    /\ LET result == diff_data(data, cols_to_keep)
       IN  IF IsError(result)
           THEN pc' = "raised" /\ UNCHANGED data
           ELSE /\ pc' = IF pc = "start" THEN "done" ELSE "rerun"
                /\ data' = result
    /\ UNCHANGED <<dict_scenario_df_to_merge, cols_for_scenario, add_use_column,
                   notCombine>>

NextDiff == DiffData

SpecDiff == InitDiff /\ [][NextDiff]_vars

(***************************************************************************)
(* SpecNearest: find_lsoa_catchment called with any candidate list.        *)
(***************************************************************************)
CandidateLists == {<<>>} \cup ListsUpTo(AllPostcodes, MaxCandidates)

InitNearest ==
    /\ pc = "start"
    /\ df_time_lsoa_to_units \in LsoaMatrices
    /\ df_units = <<>>
    /\ lsoa_catchment_type = "other"
    /\ limit_to_england = FALSE
    /\ limit_to_wales = FALSE
    /\ teams_to_limit = <<>>
    /\ df_catchment = NoTable
    /\ df_lsoa = NoTable
    /\ regions_lsoa_ew = LsoaLookup
    /\ UnitsIdle
    /\ CombineIdle
    /\ GeoIdle

FindLsoaCatchment ==
    /\ pc = "start"
    /\ \E teams \in CandidateLists :
        LET found == find_lsoa_catchment(df_time_lsoa_to_units, teams)
        IN  /\ teams_to_limit' = teams
            /\ df_catchment' = found
            /\ pc' = IF IsError(found) THEN "raised" ELSE "done"
    /\ UNCHANGED <<df_time_lsoa_to_units, df_units, lsoa_catchment_type,
                   limit_to_england, limit_to_wales, df_lsoa, regions_lsoa_ew,
                   notCatchment>>

NextNearest == FindLsoaCatchment

SpecNearest == InitNearest /\ [][NextNearest]_vars

(***************************************************************************)
(* SpecCatchment: calculate_lsoa_catchment run repeatedly on one input.    *)
(***************************************************************************)
InitCatchment ==
    /\ pc = "start"
    /\ df_time_lsoa_to_units \in LsoaMatrices
    /\ df_units \in UnitTables
    /\ lsoa_catchment_type \in {"island", "other"}
    /\ limit_to_england \in BOOLEAN
    /\ limit_to_wales \in BOOLEAN
    /\ teams_to_limit = <<>>
    /\ df_catchment = NoTable
    /\ df_lsoa = NoTable
    /\ regions_lsoa_ew = LsoaLookup
    /\ UnitsIdle
    /\ CombineIdle
    /\ GeoIdle

\* One run of calculate_lsoa_catchment; the second run ("done" to "rerun")
\* is a fresh process on the same inputs.
CalculateLsoaCatchment ==
    /\ pc \in {"start", "done"}
    /\ \E order \in TeamsToLimitOrders(df_units) :
        LET result == calculate_lsoa_catchment(order)
        IN  /\ teams_to_limit' = order
            /\ IF IsError(result)
               THEN pc' = "raised" /\ UNCHANGED df_lsoa
               ELSE /\ pc' = IF pc = "start" THEN "done" ELSE "rerun"
                    /\ df_lsoa' = result
    /\ UNCHANGED <<df_time_lsoa_to_units, df_units, lsoa_catchment_type,
                   limit_to_england, limit_to_wales, df_catchment, regions_lsoa_ew,
                   notCatchment>>

NextCatchment == CalculateLsoaCatchment

SpecCatchment == InitCatchment /\ [][NextCatchment]_vars

(***************************************************************************)
(* Claims about the nearest-unit lookup                                    *)
(***************************************************************************)
Found(l) == df_catchment.rows[l]
CandidateTimes(l) == {df_time_lsoa_to_units[l][teams_to_limit[i]] : i \in DOMAIN teams_to_limit}

\* C1: for every row and every non-empty candidate list handed to
\* find_lsoa_catchment, the returned unit is one of the candidates and the
\* returned travel time is the minimum of the row's times over the candidates
\* (and is the time to the returned unit).
C1_NearestIsCandidateWithMinTime ==
    (pc = "done" /\ Len(teams_to_limit) > 0) =>
        \A l \in Lsoas :
            /\ Found(l).unit_postcode \in Range(teams_to_limit)
            /\ Found(l).unit_travel_time \in CandidateTimes(l)
            /\ \A t \in CandidateTimes(l) : Found(l).unit_travel_time <= t
            /\ df_time_lsoa_to_units[l][Found(l).unit_postcode] = Found(l).unit_travel_time

\* A proper subset of the matrix columns was searched and a unit outside the
\* candidates is strictly nearer than the unit returned.
C1_Witness ==
    /\ pc = "done"
    /\ Len(teams_to_limit) > 0
    /\ \E l \in Lsoas :
        /\ Found(l).unit_postcode \in Range(teams_to_limit)
        /\ \E u \in UnitIds \ Range(teams_to_limit) :
            df_time_lsoa_to_units[l][u] < Found(l).unit_travel_time

\* C2: when several candidates share the minimum time of a row, the unit
\* returned is the one listed first in the candidate order.
C2_TieGoesToFirstCandidate ==
    (pc = "done" /\ Len(teams_to_limit) > 0) =>
        \A l \in Lsoas : \A i \in DOMAIN teams_to_limit :
            df_time_lsoa_to_units[l][teams_to_limit[i]] = Found(l).unit_travel_time
                => \E k \in 1..i : teams_to_limit[k] = Found(l).unit_postcode

\* Two different candidates tie for the minimum and the earlier one is returned.
C2_Witness ==
    /\ pc = "done"
    /\ \E l \in Lsoas : \E i, j \in DOMAIN teams_to_limit :
        /\ i < j
        /\ teams_to_limit[i] # teams_to_limit[j]
        /\ df_time_lsoa_to_units[l][teams_to_limit[i]] = Found(l).unit_travel_time
        /\ df_time_lsoa_to_units[l][teams_to_limit[j]] = Found(l).unit_travel_time
        /\ Found(l).unit_postcode = teams_to_limit[i]
        /\ \A k \in 1..(i - 1) : teams_to_limit[k] # teams_to_limit[i]

\* C3: calculate_lsoa_catchment is deterministic: a second run on the same
\* unit table and travel matrix stores the same unit and travel time for
\* every LSOA as the first run did.
C3_RerunGivesSameCatchment ==
    [][(pc = "done" /\ pc' = "rerun") => df_lsoa' = df_lsoa]_vars

(***************************************************************************)
(* Claims about calculate_transfer_units                                   *)
(***************************************************************************)
TeamRows == DOMAIN df_stroke_teams
Team(i) == df_stroke_teams[i]
Transfer(i) == df_nearest_mt.rows[Team(i).postcode]
MtUnits == {Team(i).postcode : i \in {k \in TeamRows : Team(k).use_mt = 1}}
HasMatrixRow(i) == Team(i).postcode \in DOMAIN df_time_inter_hospital
TimeFrom(i, hub) == df_time_inter_hospital[Team(i).postcode][hub]
IsNoTransfer(i) ==
    /\ Transfer(i).transfer_unit_postcode = NA
    /\ Transfer(i).transfer_unit_travel_time = Null
IsNearestHub(i) ==
    /\ Transfer(i).transfer_unit_postcode \in MtUnits
    /\ Transfer(i).transfer_unit_travel_time =
            Some(TimeFrom(i, Transfer(i).transfer_unit_postcode))
    /\ \A hub \in MtUnits :
            TimeFrom(i, Transfer(i).transfer_unit_postcode) <= TimeFrom(i, hub)

\* C4: every unit that does not offer IVT ends with a missing transfer unit
\* and a missing transfer travel time, whatever override it held on input.
C4_NoIvtUnitHasNoTransfer ==
    pc = "done" => \A i \in TeamRows : Team(i).use_ivt # 1 => IsNoTransfer(i)

\* A unit without IVT was overridden to an MT unit and the table was returned.
C4_Witness ==
    /\ pc = "done"
    /\ \E i \in TeamRows :
        /\ Team(i).use_ivt = 0
        /\ Team(i).transfer_unit_postcode \in MtUnits
        /\ IsNoTransfer(i)

\* C5 as stated: every IVT unit whose override is 'nearest' is assigned the
\* MT unit with the minimum inter-hospital time from it, with that time.
C5_Original ==
    pc = "done" =>
        \A i \in TeamRows :
            (Team(i).use_ivt = 1 /\ Team(i).transfer_unit_postcode = "nearest")
                => (HasMatrixRow(i) /\ IsNearestHub(i))

\* C5 amended: every IVT unit whose override is 'nearest' and that has a row
\* in the inter-hospital matrix is assigned an MT unit with the minimum time
\* from it, with that time; such a unit without a matrix row is left with a
\* missing transfer unit and time; so no default transfer unit is ever a unit
\* that does not offer MT.
C5_NearestHubForMatrixUnits ==
    pc = "done" =>
        \A i \in TeamRows :
            (Team(i).use_ivt = 1 /\ Team(i).transfer_unit_postcode = "nearest")
                => IF HasMatrixRow(i) THEN IsNearestHub(i) ELSE IsNoTransfer(i)

\* An IVT unit on 'nearest' had two MT units at different times to choose from.
C5_Witness ==
    /\ pc = "done"
    /\ \E i \in TeamRows :
        /\ Team(i).use_ivt = 1
        /\ Team(i).transfer_unit_postcode = "nearest"
        /\ HasMatrixRow(i)
        /\ \E hub \in MtUnits :
            TimeFrom(i, Transfer(i).transfer_unit_postcode) < TimeFrom(i, hub)

OverriddenToUnit(i) == Team(i).transfer_unit_postcode \in AllPostcodes
OverriddenToHub(i) == Team(i).transfer_unit_postcode \in MtUnits
IsOverrideHonoured(i) ==
    /\ HasMatrixRow(i)
    /\ Transfer(i).transfer_unit_postcode = Team(i).transfer_unit_postcode
    /\ Transfer(i).transfer_unit_travel_time =
            Some(TimeFrom(i, Team(i).transfer_unit_postcode))

\* C6 as stated: a unit overridden to the id of an MT unit gets that unit and
\* the matrix time to it; a unit overridden to 'none' gets a missing unit and
\* a missing time.
C6_Original ==
    pc = "done" =>
        \A i \in TeamRows :
            /\ OverriddenToHub(i) => IsOverrideHonoured(i)
            /\ Team(i).transfer_unit_postcode = "none" => IsNoTransfer(i)

\* C6 amended: a unit that offers IVT and is overridden to the id of an MT
\* unit gets that unit and the matrix time to it; any unit overridden to
\* 'none' gets a missing transfer unit and a missing (not zero) time.
C6_OverrideHonouredForIvtUnits ==
    pc = "done" =>
        \A i \in TeamRows :
            /\ (Team(i).use_ivt = 1 /\ OverriddenToHub(i)) => IsOverrideHonoured(i)
            /\ Team(i).transfer_unit_postcode = "none" => IsNoTransfer(i)

\* An IVT unit was overridden to an MT unit that is not its nearest one, and
\* an IVT unit was overridden to 'none'.
C6_Witness ==
    /\ pc = "done"
    /\ \E i \in TeamRows :
        /\ Team(i).use_ivt = 1
        /\ OverriddenToHub(i)
        /\ \E hub \in MtUnits : TimeFrom(i, hub) < TimeFrom(i, Team(i).transfer_unit_postcode)
    /\ \E i \in TeamRows :
        Team(i).use_ivt = 1 /\ Team(i).transfer_unit_postcode = "none"

\* The IVT units whose override names a unit the lookup cannot resolve.
UnresolvedOverrides ==
    {i \in TeamRows :
        /\ Team(i).use_ivt = 1
        /\ OverriddenToUnit(i)
        /\ (~HasMatrixRow(i) \/ Team(i).transfer_unit_postcode \notin MtUnits)}

\* C7: an override that cannot be resolved aborts the resolution of that unit
\* only: the table is still returned, the failing unit is left without a
\* transfer unit and every other unit has its transfer unit and time.
C7_UnresolvedOverrideAbortsOnlyThatUnit ==
    (/\ pc # "start"
     /\ UnresolvedOverrides # {}
     /\ MtUnits # {}
     /\ MtUnits \subseteq UnitIds)
        => /\ pc = "done"
           /\ \A i \in UnresolvedOverrides : IsNoTransfer(i)
           /\ \A i \in TeamRows \ UnresolvedOverrides :
                IF Team(i).use_ivt # 1 \/ Team(i).transfer_unit_postcode = "none"
                    THEN IsNoTransfer(i)
                ELSE IF OverriddenToUnit(i) THEN IsOverrideHonoured(i)
                ELSE IF HasMatrixRow(i) THEN IsNearestHub(i)
                ELSE IsNoTransfer(i)

(***************************************************************************)
(* Claims about _hstack_multiple_dataframes                                *)
(***************************************************************************)
\* C8: combining is order-independent: two calls on the same scenario tables
\* listed in different orders return tables with the same set of columns (the
\* 'any' columns included) and the same value in every cell.
C8_CombineIsOrderIndependent ==
    [][(pc = "done" /\ pc' = "done") =>
            /\ Range(data'.columns) = Range(data.columns)
            /\ data'.index = data.index
            /\ data'.cells = data.cells]_vars

InputTable(i) == dict_scenario_df_to_merge[i].df
InputRows == DOMAIN dict_scenario_df_to_merge
HasSameColumn(i, j, c) ==
    /\ c \in Range(InputTable(i).columns)
    /\ c \in Range(InputTable(j).columns)
    /\ InputTable(i).index = InputTable(j).index
    /\ \A r \in InputTable(i).index : InputTable(i).data[r][c] = InputTable(j).data[r][c]

\* C9: a column is under 'any' only when it is identical (same name, same
\* values) in all input scenarios; it then appears once in the combined table
\* and under no scenario name.
C9_AnyColumnsAreIdenticalInAllScenarios ==
    pc = "done" =>
        \A k \in DOMAIN data.columns :
            data.columns[k][1] = "any" =>
                /\ \A i, j \in InputRows : HasSameColumn(i, j, data.columns[k][2])
                /\ \A m \in DOMAIN data.columns :
                        (m # k) => data.columns[m][2] # data.columns[k][2]

\* C10: the top-level groups of the returned table are in the order 'any'
\* (when present), then the scenario names ascending, whatever the order of
\* the dict and whether or not an 'any' group was split off.
C10_GroupsAreAnyThenSortedNames ==
    pc = "done" =>
        \A i, j \in DOMAIN data.columns :
            i < j => NameRank(data.columns[i][1]) <= NameRank(data.columns[j][1])

\* The flag columns of a scenario table.
FlagColumns == {"selected", "Use"}
\* The rows of the combined table that input scenario i does not hold.
RowsLacking(i) == {r \in Range(data.index) : r \notin InputTable(i).index}

\* C11: a row of the combined table that a scenario lacks has null in the
\* numeric columns of that scenario and 0 (not null) in its flag columns
\* 'selected' / 'Use'.
C11_LackingRowHasNullNumbersAndZeroFlags ==
    pc = "done" =>
        \A i \in InputRows : \A r \in RowsLacking(i) :
            \A k \in DOMAIN data.columns :
                data.columns[k][1] = dict_scenario_df_to_merge[i].name =>
                    data.cells[data.columns[k]][r] =
                        IF data.columns[k][2] \in FlagColumns THEN Some(0) ELSE Null

\* The input scenario tables do not all have the same number of column levels.
DepthsDiffer ==
    \E i, j \in InputRows : nlevels(InputTable(i)) # nlevels(InputTable(j))

\* C12: combining scenario tables whose column depths differ fails the whole
\* operation with an error: no combined table is returned.
C12_MixedDepthFailsWholeCombine ==
    (pc # "start" /\ DepthsDiffer) => (pc = "raised" /\ data = NoData)

\* A combine of a one-level table with a two-level table was attempted.
C12_Witness ==
    /\ pc = "raised"
    /\ DepthsDiffer
    /\ \E i \in InputRows : InputTable(i).index # {}

(***************************************************************************)
(* Claims about _diff_data                                                 *)
(***************************************************************************)
\* The scenarios of the table other than 'any'.
TableScenarios == {data.columns[k][1] : k \in DOMAIN data.columns} \ {AnyName}
\* The subtype of the columns of the table ("" for a table of two levels).
TableSubtype == IF data.nlevels = 2 THEN "" ELSE data.columns[1][3]
\* The pairs (A, B) for which the table holds a diff scenario diff_A_minus_B.
DiffedPairs ==
    {pair \in TableScenarios \X TableScenarios :
        diff_col_name(pair[1], pair[2]) \in TableScenarios}
Cell(name, c, r) == data.cells[Label(name, c, TableSubtype)][r]
DiffCell(pair, c, r) == Cell(diff_col_name(pair[1], pair[2]), c, r)
Requested == Range(cols_to_keep)
IsCalled == pc \in {"done", "rerun"}

\* C13: for a subtype 'mean' or 'median' and for a property without subtype,
\* each raw pair A < B has its diff column, and every cell of a column
\* diff_A_minus_B is A's value minus B's value, missing when either is missing.
C13_AverageDiffIsAMinusB ==
    (IsCalled /\ TableSubtype \in {"mean", "median", ""}) =>
        /\ \A A, B \in RawScenarios :
                NameLess(A, B) => <<A, B>> \in DiffedPairs
        /\ \A pair \in DiffedPairs : \A c \in Requested : \A r \in RowIds :
            LET a == Cell(pair[1], c, r)
                b == Cell(pair[2], c, r)
                d == DiffCell(pair, c, r)
            IN  IF a = Null \/ b = Null THEN d = Null
                ELSE d = Some(Real(a[1].v - b[1].v))

\* A mean column was diffed where A and B hold different values.
C13_Witness ==
    /\ pc = "done"
    /\ TableSubtype = "mean"
    /\ \E pair \in DiffedPairs : \E c \in Requested : \E r \in RowIds :
        /\ Cell(pair[1], c, r) # Null
        /\ Cell(pair[2], c, r) # Null
        /\ Cell(pair[1], c, r) # Cell(pair[2], c, r)
        /\ DiffCell(pair, c, r) # Some(Real(0))

\* C14: for the subtype 'std' every cell of a column diff_A_minus_B is
\* sqrt(A^2 + B^2) when both sides are present and the value of the present
\* side when exactly one side is missing.
C14_StdDiffIsRootOfSumOfSquares ==
    (IsCalled /\ TableSubtype = "std") =>
        \A pair \in DiffedPairs : \A c \in Requested : \A r \in RowIds :
            LET a == Cell(pair[1], c, r)
                b == Cell(pair[2], c, r)
                d == DiffCell(pair, c, r)
            IN  /\ (a # Null /\ b # Null) =>
                        /\ d # Null
                        /\ d[1].kind \in {"int", "sqrt"}
                        /\ d[1].kind = "int" => d[1].v >= 0
                        /\ Pow2(d[1]) = Pow2(a[1]) + Pow2(b[1])
                /\ (a # Null /\ b = Null) => d = a
                /\ (a = Null /\ b # Null) => d = b

\* A std column was diffed where one side is missing and the other is not 0.
C14_Witness ==
    /\ pc = "done"
    /\ TableSubtype = "std"
    /\ \E pair \in DiffedPairs : \E c \in Requested : \E r \in RowIds :
        /\ Cell(pair[1], c, r) = Null
        /\ Cell(pair[2], c, r) \notin {Null, Some(Real(0))}
        /\ DiffCell(pair, c, r) = Cell(pair[2], c, r)

\* C15: when the requested property has a subtype other than 'mean', 'median'
\* or 'std', _diff_data fails with an error and writes no column filled with
\* the placeholder 'help'.
C15_UnsupportedSubtypeFails ==
    (pc # "start" /\ data.nlevels = 3 /\ TableSubtype \notin {"mean", "median", "std"}) =>
        /\ pc = "raised"
        /\ \A label \in DOMAIN data.cells : \A r \in RowIds :
                data.cells[label][r] # Some(Help)

\* A name that starts with 'diff_'.
IsDiffName(name) == Head(name) = "diff_"
\* The diff scenarios a call on the table with the scenarios S is to create.
ExpectedDiffs(S) ==
    {diff_col_name(pair[1], pair[2]) :
        pair \in {q \in S \X S : NameLess(q[1], q[2])}}
\* The scenarios of the table after the call.
TableScenariosAfter == {data'.columns[k][1] : k \in DOMAIN data'.columns} \ {AnyName}

\* C16: a call on a table with n scenarios other than 'any' creates exactly
\* the n*(n-1)/2 diff scenarios diff_X_minus_Y with X before Y in the order of
\* the names and never diff_Y_minus_X, and each new column has the property
\* and subtype labels of a source column of X and of Y.
C16_DiffScenariosAreTheSortedPairs ==
    [][(pc' \in {"done", "rerun"}) =>
        LET n == Cardinality(TableScenarios)
        IN  /\ TableScenariosAfter = TableScenarios \cup ExpectedDiffs(TableScenarios)
            /\ 2 * Cardinality(ExpectedDiffs(TableScenarios)) = n * (n - 1)
            /\ \A X, Y \in TableScenarios :
                    NameLess(X, Y) =>
                        /\ diff_col_name(Y, X) \notin TableScenariosAfter
                        /\ \A k \in DOMAIN data'.columns :
                            data'.columns[k][1] = diff_col_name(X, Y) =>
                                /\ <<X>> \o Tail(data'.columns[k]) \in Range(data.columns)
                                /\ <<Y>> \o Tail(data'.columns[k]) \in Range(data.columns)
      ]_vars

\* A second call was made on a table of at least three scenarios, one of
\* them a diff: the table now holds the diffs of all their pairs.
C16_Witness ==
    /\ pc = "rerun"
    /\ Cardinality(TableScenarios) >= 5
    /\ \E X, Y \in TableScenarios :
            /\ IsDiffName(Y)
            /\ NameLess(X, Y)
            /\ diff_col_name(X, Y) \in TableScenarios

\* The scenarios of the table that are neither 'any' nor a diff.
RawTableScenarios == {name \in TableScenarios : ~IsDiffName(name)}

\* C17: a scenario whose name starts with 'diff_' is never a side of a diff
\* pair: after any number of calls every diff scenario of the table is the
\* diff of two raw scenarios.
C17_DiffScenariosAreNeverDiffed ==
    \A name \in TableScenarios :
        IsDiffName(name) =>
            \E X, Y \in RawTableScenarios : name = diff_col_name(X, Y)

(***************************************************************************)
(* Periphery units and regions (stroke_maps/geo.py).                       *)
(*                                                                         *)
(* A table with MultiIndex column headings is [index, columns]: index is   *)
(* the sequence of row labels and columns maps each heading                *)
(* <<property, scenario>> to its column, a function of the row label.      *)
(***************************************************************************)

\* The scenarios of the combined tables.  The loop of make_new_periphery_data
\* handles each scenario on its own, so two of them show all it does.
GeoScenarios == {<<ScenarioName(1)>>, <<ScenarioName(2)>>}

\* df.columns.get_level_values('scenario')
ScenarioLevel(df) == {col[2] : col \in DOMAIN df.columns}

\* s.startswith('diff')
StartsWithDiff(s) == Head(s) = "diff_"

\* Lines 215-222: the scenarios of the unit table, sorted, without 'any'
\* and without the diff scenarios.
scenario_list(units) ==
    LET NotDiff(s) == ~StartsWithDiff(s)
    IN  SelectSeq(SortedScenarios(ScenarioLevel(units) \ {AnyName}), NotDiff)

\* stroke_maps.utils.find_multiindex_column_names(df, level=col_list): the
\* headings whose entry at that level (1 property, 2 scenario) is in col_list.
find_multiindex_column_names(df, level, col_list) ==
    {col \in DOMAIN df.columns : col[level] \in col_list}

\* len(cols) == 1: the heading itself is returned.
TheHeading(cols) == CHOOSE col \in cols : TRUE

\* Lines 226-247: region_code of regions_lsoa_ew.csv merged into the LSOA
\* table under the scenario 'any'; reset_index() makes lsoa_code a column.
MergeLsoaRegions(lsoa) ==
    [lsoa EXCEPT !.columns =
        [col \in DOMAIN lsoa.columns \cup
                 {<<"lsoa_code", AnyName>>, <<"region_code", AnyName>>} |->
            IF col = <<"lsoa_code", AnyName>>
            THEN [l \in Range(lsoa.index) |-> LsoaLookup[l].lsoa_code]
            ELSE IF col = <<"region_code", AnyName>>
            THEN [l \in Range(lsoa.index) |-> LsoaLookup[l].region_code]
            ELSE lsoa.columns[col]]]

\* Lines 277-282: the columns of 'any' and of this scenario, with the
\* scenario level dropped.
LsoaHere(lsoa, scenario) ==
    LET cols == find_multiindex_column_names(lsoa, 2, {AnyName, scenario})
    IN  [index |-> lsoa.index,
         columns |-> [col \in {<<c[1]>> : c \in cols} |->
                        lsoa.columns[CHOOSE c \in cols : c[1] = col[1]]]]

\* Lines 257-264: the LSOA codes of the rows with selected == 1.
LsoaSelected(lsoa, scenario) ==
    LET col_selected == TheHeading(
            find_multiindex_column_names(lsoa, 1, {"selected"}) \cap
            find_multiindex_column_names(lsoa, 2, {scenario}))
        col_lsoa_code == TheHeading(
            find_multiindex_column_names(lsoa, 1, {"lsoa_code"}))
    IN  {lsoa.columns[col_lsoa_code][l] :
            l \in {r \in Range(lsoa.index) : lsoa.columns[col_selected][r] = 1}}

\* The units with selected == 1 in some scenario of the table.
UnitsSelectedInSomeScenario(units, scenario) ==
    {u \in Range(units.index) :
        \E col \in find_multiindex_column_names(units, 1, {"selected"}) :
            units.columns[col][u] = 1}

\* Lines 267-271: the postcodes of the units with selected == 1.
UnitsSelected(units, scenario) ==
    LET col_selected == TheHeading(
            find_multiindex_column_names(units, 1, {"selected"}) \cap
            find_multiindex_column_names(units, 2, {scenario}))
    IN  {u \in Range(units.index) : units.columns[col_selected][u] = 1}

\* Lines 273-274: the region codes of those units.
RegionsSelected(units, scenario) ==
    {units.columns[<<"region_code", AnyName>>][u] :
        u \in UnitsSelected(units, scenario)}

\* Lines 361-370.
regions_containing_lsoa(lsoa_here, selected_lsoa) ==
    LET col_lsoa_code == TheHeading(
            find_multiindex_column_names(lsoa_here, 1, {"lsoa_code"}))
        col_region_code == TheHeading(
            find_multiindex_column_names(lsoa_here, 1, {"region_code"}))
        mask_lsoa_selected ==
            {l \in Range(lsoa_here.index) :
                lsoa_here.columns[col_lsoa_code][l] \in selected_lsoa}
    IN  {lsoa_here.columns[col_region_code][l] : l \in mask_lsoa_selected}

\* Every region of the model, whichever units are selected.
all_regions(units, selected_units) == Regions

\* Lines 373-389.
regions_containing_units(units, selected_units) ==
    LET col_region_code == TheHeading(
            find_multiindex_column_names(units, 1, {"region_code"}))
        mask_units_selected == {u \in Range(units.index) : u \in selected_units}
    IN  {units.columns[col_region_code][u] : u \in mask_units_selected}

\* Lines 392-401.
periphery_units(lsoa_here, units, selected_units) ==
    LET col_region_code == TheHeading(
            find_multiindex_column_names(lsoa_here, 1, {"region_code"}))
        col_unit_postcode == TheHeading(
            find_multiindex_column_names(lsoa_here, 1, {"unit_postcode"}))
        mask_lsoa_in_regions_containing_units ==
            {l \in Range(lsoa_here.index) :
                lsoa_here.columns[col_region_code][l] \in
                    regions_containing_units(units, selected_units)}
    IN  {lsoa_here.columns[col_unit_postcode][l] :
            l \in mask_lsoa_in_regions_containing_units}

\* Lines 404-411.
regions_with_periphery_units(units, periphery) ==
    LET col_region_code == TheHeading(
            find_multiindex_column_names(units, 1, {"region_code"}))
        mask_regions_periphery_units ==
            {u \in Range(units.index) : u \in periphery}
    IN  {units.columns[col_region_code][u] : u \in mask_regions_periphery_units}

link_pathway_geography(lsoa_here, units, selected_units, selected_lsoa) ==
    LET periphery == periphery_units(lsoa_here, units, selected_units)
    IN  [periphery_units |-> periphery,
         regions_containing_lsoa |->
            regions_containing_lsoa(lsoa_here, selected_lsoa),
         regions_with_periphery_units |->
            regions_with_periphery_units(units, periphery)]

\* The dictionary d of lines 285-290 for one scenario.
PathwayGeography(units, lsoa, scenario) ==
    LET merged == MergeLsoaRegions(lsoa)
    IN  link_pathway_geography(LsoaHere(merged, scenario), units,
                               UnitsSelected(units, scenario),
                               LsoaSelected(merged, scenario))

\* df[col] = 0; df.loc[mask, col] = 1
FlagColumn(rows, mask) == [r \in rows |-> IF r \in mask THEN 1 ELSE 0]

\* Lines 294-300, for every scenario of the list.
WithPeripheryUnit(units, lsoa) ==
    LET scenarios == Range(scenario_list(units))
        new == {<<"periphery_unit", s>> : s \in scenarios}
    IN  [units EXCEPT !.columns =
            [col \in DOMAIN units.columns \cup new |->
                IF col \in new
                THEN FlagColumn(Range(units.index),
                        PathwayGeography(units, lsoa, col[2]).periphery_units)
                ELSE units.columns[col]]]

\* Lines 303-324, for every scenario of the list.
WithRegionFlags(regions, units, lsoa) ==
    LET scenarios == Range(scenario_list(units))
        new == {<<p, s>> : p \in {"contains_unit", "contains_periphery_lsoa",
                                  "contains_periphery_unit"},
                           s \in scenarios}
        rows == Range(regions.index)
    IN  [regions EXCEPT !.columns =
            [col \in DOMAIN regions.columns \cup new |->
                IF col \notin new THEN regions.columns[col]
                ELSE IF col[1] = "contains_unit"
                THEN FlagColumn(rows, RegionsSelected(units, col[2]))
                ELSE IF col[1] = "contains_periphery_lsoa"
                THEN FlagColumn(rows,
                        PathwayGeography(units, lsoa, col[2]).regions_containing_lsoa)
                ELSE FlagColumn(rows,
                        PathwayGeography(units, lsoa, col[2]).regions_with_periphery_units)]]

\* The combined unit tables: region_code under 'any', selected under each
\* scenario, and an outcome column under the diff of the two scenarios.
GeoUnitIndex == [i \in 1..MaxUnits |-> Postcode(i)]
GeoUnitFrames ==
    {[index |-> GeoUnitIndex,
      columns |->
        [col \in {<<"region_code", AnyName>>}
                 \cup {<<"selected", s>> : s \in GeoScenarios}
                 \cup {<<"utility_shift",
                         diff_col_name(<<ScenarioName(1)>>, <<ScenarioName(2)>>)>>} |->
            IF col[1] = "region_code"
            THEN [u \in UnitIds |-> HomeRegion(UnitIndex(u))]
            ELSE IF col[1] = "selected" THEN sel[col[2]]
            ELSE [u \in UnitIds |-> 0]]] :
        sel \in [GeoScenarios -> [UnitIds -> Flags]]}

\* The combined LSOA tables: the unit of each LSOA and whether the LSOA is
\* selected, under each scenario.
GeoLsoaIndex == [i \in 1..MaxLsoa |-> LsoaName(i)]
GeoLsoaFrames ==
    {[index |-> GeoLsoaIndex,
      columns |->
        [col \in {<<p, s>> : p \in {"unit_postcode", "selected"},
                             s \in GeoScenarios} |->
            IF col[1] = "unit_postcode" THEN unit[col[2]] ELSE sel[col[2]]]] :
        unit \in [GeoScenarios -> [Lsoas -> UnitIds]],
        sel \in [GeoScenarios -> [Lsoas -> Flags]]}

\* load_regions(): one row per region, its columns under the scenario 'any'.
GeoRegionIndex == [i \in 1..MaxRegions |-> RegionCode(i)]
LoadedRegions ==
    [index |-> GeoRegionIndex,
     columns |-> [col \in {<<"region_type", AnyName>>} |->
                    [r \in Regions |-> RegionType(r)]]]

InitGeo ==
    /\ pc = "start"
    /\ df_units_combined \in GeoUnitFrames
    /\ df_lsoa_combined \in GeoLsoaFrames
    /\ df_regions = LoadedRegions
    /\ gdf = NoFrame
    /\ CatchmentIdle
    /\ UnitsIdle
    /\ CombineIdle

\* make_new_periphery_data(df_regions, df_units, df_lsoa)
MakeNewPeripheryData ==
    /\ pc = "start"
    /\ pc' = "done"
    /\ df_units_combined' = WithPeripheryUnit(df_units_combined, df_lsoa_combined)
    /\ df_regions' = WithRegionFlags(df_regions, df_units_combined, df_lsoa_combined)
    /\ UNCHANGED <<df_lsoa_combined, gdf, notGeo>>

NextGeo == MakeNewPeripheryData

SpecGeo == InitGeo /\ [][NextGeo]_vars

\* The cell of a combined table under the heading <<property, scenario>>.
GeoCell(df, property, scenario, row) == df.columns[<<property, scenario>>][row]

\* The region of a unit and of an LSOA, as the tables and the lookup file
\* give them.
UnitRegion(u) == GeoCell(df_units_combined, "region_code", AnyName, u)
LsoaRegion(l) == LsoaLookup[l].region_code

\* The regions holding a unit selected in the scenario, and those holding
\* an LSOA selected in the scenario.
RegionsWithSelectedUnit(s) ==
    {UnitRegion(u) : u \in {v \in UnitIds :
                            GeoCell(df_units_combined, "selected", s, v) = 1}}
RegionsWithSelectedLsoa(s) ==
    {LsoaRegion(l) : l \in {k \in Lsoas :
                            GeoCell(df_lsoa_combined, "selected", s, k) = 1}}

\* The units of the LSOAs lying in a region that holds a selected unit.
UnitsOfLsoasNearSelected(s) ==
    {GeoCell(df_lsoa_combined, "unit_postcode", s, l) :
        l \in {k \in Lsoas : LsoaRegion(k) \in RegionsWithSelectedUnit(s)}}

\* C18: for every scenario, neither the periphery_units of
\* link_pathway_geography nor the rows flagged periphery_unit by
\* make_new_periphery_data include a unit selected in that scenario.
C18_PeripheryUnitsAreNotSelected ==
    pc = "done" =>
        \A s \in GeoScenarios : \A u \in UnitIds :
            (\/ u \in PathwayGeography(df_units_combined, df_lsoa_combined,
                                       s).periphery_units
             \/ GeoCell(df_units_combined, "periphery_unit", s, u) = 1)
                => GeoCell(df_units_combined, "selected", s, u) # 1

\* C19: for every scenario and region, contains_periphery_lsoa is 1 exactly
\* when the region holds a selected LSOA and holds no selected unit.
C19_PeripheryLsoaRegionsHoldNoSelectedUnit ==
    pc = "done" =>
        \A s \in GeoScenarios : \A r \in Regions :
            GeoCell(df_regions, "contains_periphery_lsoa", s, r) = 1
                <=> /\ r \in RegionsWithSelectedLsoa(s)
                    /\ r \notin RegionsWithSelectedUnit(s)

OtherUnitFrames(units, t) ==
    {[units EXCEPT !.columns[<<"selected", t>>][u] = 1 - @] : u \in UnitIds}
OtherLsoaFrames(lsoa, t) ==
    {[lsoa EXCEPT !.columns[<<"selected", t>>][l] = 1 - @] : l \in Lsoas}
    \cup {[lsoa EXCEPT !.columns[<<"unit_postcode", t>>][l] = u] :
            l \in Lsoas, u \in UnitIds}

\* The flags of scenario s that a call on these tables writes.
FlagsWritten(regions, units, lsoa, s) ==
    [regions |-> [p \in {"contains_unit", "contains_periphery_lsoa",
                         "contains_periphery_unit"} |->
                    WithRegionFlags(regions, units, lsoa).columns[<<p, s>>]],
     units |-> WithPeripheryUnit(units, lsoa).columns[<<"periphery_unit", s>>]]

\* C21: the flags make_new_periphery_data writes for a scenario s are those
\* it writes when a cell of another scenario t holds another value; every
\* table of t is reached from every other by such changes, so the flags of
\* s do not depend on the data of t.
C21_FlagsOfOneScenarioIgnoreTheOther ==
    [][(pc = "start" /\ pc' = "done") =>
        \A s \in GeoScenarios : \A t \in GeoScenarios \ {s} :
            LET written ==
                    [regions |-> [p \in {"contains_unit", "contains_periphery_lsoa",
                                         "contains_periphery_unit"} |->
                                    df_regions'.columns[<<p, s>>]],
                     units |-> df_units_combined'.columns[<<"periphery_unit", s>>]]
            IN  /\ \A units \in OtherUnitFrames(df_units_combined, t) :
                        FlagsWritten(df_regions, units, df_lsoa_combined, s) = written
                /\ \A lsoa \in OtherLsoaFrames(df_lsoa_combined, t) :
                        FlagsWritten(df_regions, df_units_combined, lsoa, s) = written
      ]_vars

\* The call was made on two scenarios with different selected units, and
\* each of the four flags differs between the two scenarios in some row.
C21_Witness ==
    /\ pc = "done"
    /\ \E s, t \in GeoScenarios :
            /\ \E u \in UnitIds :
                    GeoCell(df_units_combined, "periphery_unit", s, u) #
                    GeoCell(df_units_combined, "periphery_unit", t, u)
            /\ \A p \in {"contains_unit", "contains_periphery_lsoa",
                         "contains_periphery_unit"} :
                    \E r \in Regions :
                        GeoCell(df_regions, p, s, r) # GeoCell(df_regions, p, t, r)

(***************************************************************************)
(* Colours of neighbouring areas (stroke_maps/geo.py).                     *)
(*                                                                         *)
(* The table is [index, geometry, ...]: index is the sequence of the unit  *)
(* labels of its rows and geometry the set of the pairs {a, b} of labels   *)
(* whose polygons intersect.                                               *)
(***************************************************************************)
Areas == {Postcode(i) : i \in 1..MaxAreas}

\* df['geometry'].intersects(geometry_here): a polygon intersects itself.
Intersects(geometry, a, b) == a = b \/ {a, b} \in geometry

\* Lines 1399-1439: the labels of the rows each row intersects, in row
\* order, without the row itself, and how many they are.
find_neighbours_for_regions(df) ==
    LET neighbour_list ==
            [u \in Range(df.index) |->
                SelectIn(df.index,
                         {v \in Range(df.index) :
                            Intersects(df.geometry, u, v) /\ v # u})]
    IN  [index |-> df.index,
         geometry |-> df.geometry,
         neighbour_list |-> neighbour_list,
         total_neighbours |-> [u \in Range(df.index) |-> Len(neighbour_list[u])]]

\* Line 1339: sort_values('total_neighbours', ascending=False) with the
\* default quicksort, which leaves the order of equal rows open.
SortValues(df) ==
    {order \in Orderings(Range(df.index)) :
        \A i, j \in DOMAIN order :
            i < j => df.total_neighbours[order[i]] >= df.total_neighbours[order[j]]}

\* A grid on which every two rows are neighbours.
CompleteGrid(df, order) ==
    [row \in DOMAIN order |-> [col \in DOMAIN order |-> row # col]]

\* Lines 1346-1351: the grid of the rows that are neighbours, by position.
NeighbourGrid(df, order) ==
    [row \in DOMAIN order |-> [col \in DOMAIN order |->
        \/ order[col] \in Range(df.neighbour_list[order[row]])
        \/ order[row] \in Range(df.neighbour_list[order[col]])]]

\* The last colour still available.
LastAvailable(colours_here) ==
    CHOOSE i \in DOMAIN colours_here :
        colours_here[i] /\ \A j \in DOMAIN colours_here : colours_here[j] => j <= i

\* Line 1363: np.where(colours_here == True)[0][0].
FirstAvailable(colours_here) ==
    CHOOSE i \in DOMAIN colours_here :
        colours_here[i] /\ \A j \in DOMAIN colours_here : colours_here[j] => i <= j

\* The neighbours after the next row.
RowsAfterNext(rows, row) == {r \in rows : r > row + 1}

\* Line 1368: only the rows that have not been handled yet.
RowsNotYetChecked(rows, row) == {r \in rows : r > row}

\* Lines 1358-1374: the loop over the rows from `row` on.
RECURSIVE FillRows(_, _, _)
FillRows(colour_grid, neighbour_grid, row) ==
    IF row > Len(neighbour_grid) THEN [colour_grid |-> colour_grid]
    ELSE LET colours_here == colour_grid[row]
         IN  IF \A i \in DOMAIN colours_here : ~colours_here[i]
             THEN [error |-> IndexError]
             ELSE LET ind_to_pick == FirstAvailable(colours_here)
                      rows_neighbours ==
                        RowsNotYetChecked(
                            {r \in DOMAIN neighbour_grid : neighbour_grid[row][r]}, row)
                  IN  FillRows(
                        [r \in DOMAIN colour_grid |-> [i \in DOMAIN colours_here |->
                            IF r = row THEN i = ind_to_pick
                            ELSE IF r \in rows_neighbours /\ i = ind_to_pick THEN FALSE
                            ELSE colour_grid[r][i]]],
                        neighbour_grid, row + 1)

\* Lines 1341-1375: one row per area, one column per colour 0..n_colours-1.
fill_colour_grid(df, order, n_colours) ==
    FillRows([row \in DOMAIN order |-> [i \in 0..(n_colours - 1) |-> TRUE]],
             NeighbourGrid(df, order), 1)

\* Lines 1381-1384: the colour of each row of the grid.
ColourArr(colour_grid) ==
    [row \in DOMAIN colour_grid |->
        IF \E i \in DOMAIN colour_grid[row] : colour_grid[row][i]
        THEN LastAvailable(colour_grid[row])
        ELSE 0]

\* Lines 1338-1389 for one outcome of the sort.
assign_colours_to_regions(df, order) ==
    LET found == find_neighbours_for_regions(df)
        filled == fill_colour_grid(found, order, Len(order))
    IN  IF IsError(filled) THEN filled
        ELSE [index |-> order,
              geometry |-> found.geometry,
              neighbour_list |-> found.neighbour_list,
              total_neighbours |-> found.total_neighbours,
              colour_ind |-> [u \in Range(order) |->
                    ColourArr(filled.colour_grid)[CHOOSE row \in DOMAIN order : order[row] = u]]]

\* The tables handed in: some areas in some row order, any pairs of them
\* intersecting.
AreaTables ==
    UNION {{[index |-> order, geometry |-> geometry] :
                order \in Orderings(S),
                geometry \in SUBSET ({{a, b} : a, b \in S} \ {{a} : a \in S})} :
           S \in SUBSET Areas \ {{}}}

InitColours ==
    /\ pc = "start"
    /\ gdf \in AreaTables
    /\ PeripheryIdle
    /\ CatchmentIdle
    /\ UnitsIdle
    /\ CombineIdle

\* assign_colours_to_regions(gdf, col_col='colour_ind')
AssignColoursToRegions ==
    /\ pc = "start"
    /\ \E order \in SortValues(find_neighbours_for_regions(gdf)) :
            LET result == assign_colours_to_regions(gdf, order)
            IN  IF IsError(result)
                THEN pc' = "raised" /\ UNCHANGED gdf
                ELSE pc' = "done" /\ gdf' = result
    /\ UNCHANGED <<df_units_combined, df_lsoa_combined, df_regions, notGeo>>

NextColours == AssignColoursToRegions

SpecColours == InitColours /\ [][NextColours]_vars

\* The rows of the coloured table, the neighbours of a row and its colour.
ColouredAreas == Range(gdf.index)
NeighboursOf(a) == Range(gdf.neighbour_list[a])
ColourOf(a) == gdf.colour_ind[a]
MaxNeighbours ==
    CHOOSE n \in 0..MaxAreas :
        /\ \E a \in ColouredAreas : gdf.total_neighbours[a] = n
        /\ \A a \in ColouredAreas : gdf.total_neighbours[a] <= n

\* C22: after assign_colours_to_regions, two areas of which one is in the
\* other's neighbour list have different colour indices.
C22_NeighboursHaveDifferentColours ==
    pc = "done" =>
        \A a, b \in ColouredAreas :
            (b \in NeighboursOf(a) \/ a \in NeighboursOf(b)) => ColourOf(a) # ColourOf(b)

\* Three areas that all border each other have been coloured.
C22_Witness ==
    /\ pc = "done"
    /\ Cardinality(ColouredAreas) >= 3
    /\ \E a \in ColouredAreas : Cardinality(NeighboursOf(a)) >= 2
    /\ \E a, b \in ColouredAreas : a # b /\ ColourOf(a) # 0 /\ ColourOf(b) # 0

\* C23: after assign_colours_to_regions, the number of colour indices in
\* use, and the largest colour index plus one, are at most the largest
\* neighbour count plus one.
C23_ColoursAreAtMostMaxNeighboursPlusOne ==
    pc = "done" =>
        /\ Cardinality({ColourOf(a) : a \in ColouredAreas}) <= MaxNeighbours + 1
        /\ \A a \in ColouredAreas : ColourOf(a) + 1 <= MaxNeighbours + 1

\* A chain of three areas has been coloured with two colours, one fewer
\* than the largest neighbour count plus one.
C23_Witness ==
    /\ pc = "done"
    /\ MaxNeighbours = 2
    /\ Cardinality({ColourOf(a) : a \in ColouredAreas}) = 2

\* The position of an area in the order the rows were handled in.
RowOf(a) == CHOOSE row \in DOMAIN gdf.index : gdf.index[row] = a

\* The smallest colour index that no neighbour handled earlier has.
SmallestFreeColour(a) ==
    LET used == {ColourOf(b) : b \in {c \in ColouredAreas :
                    /\ RowOf(c) < RowOf(a)
                    /\ (c \in NeighboursOf(a) \/ a \in NeighboursOf(c))}}
    IN  CHOOSE i \in 0..MaxAreas : i \notin used /\ \A j \in 0..(i - 1) : j \in used

\* C27: the call never fails on a lookup, and the colour of every area is
\* one index of 0..n-1, the smallest that no neighbour handled earlier has.
C27_ColourIsSmallestNotUsedByEarlierNeighbours ==
    /\ pc # "raised"
    /\ pc = "done" =>
        \A a \in ColouredAreas :
            /\ ColourOf(a) \in 0..(Cardinality(ColouredAreas) - 1)
            /\ ColourOf(a) = SmallestFreeColour(a)

\* An area was given a colour other than 0 that an area handled earlier,
\* not its neighbour, already has, and it has a neighbour handled later.
C27_Witness ==
    /\ pc = "done"
    /\ \E a, b, c \in ColouredAreas :
            /\ RowOf(b) < RowOf(a)
            /\ b \notin NeighboursOf(a)
            /\ ColourOf(a) = ColourOf(b)
            /\ ColourOf(a) # 0
            /\ c \in NeighboursOf(b)
            /\ RowOf(c) < RowOf(b)

\* The rows in descending order of neighbour count, rows with equal counts
\* in ascending order of their label.
AreaIndex(a) == CHOOSE i \in 1..MaxAreas : Postcode(i) = a
OrderByCountThenLabel ==
    CHOOSE order \in Orderings(ColouredAreas) :
        \A i, j \in DOMAIN order :
            i < j =>
                \/ gdf.total_neighbours[order[i]] > gdf.total_neighbours[order[j]]
                \/ /\ gdf.total_neighbours[order[i]] = gdf.total_neighbours[order[j]]
                   /\ AreaIndex(order[i]) < AreaIndex(order[j])

\* C24: the rows are handled in descending order of neighbour count with
\* equal counts in ascending order of label, so the colours are those of
\* that order whatever the order of the rows handed in.
C24_OrderAndColoursDoNotDependOnInputRows ==
    pc = "done" =>
        /\ gdf.index = OrderByCountThenLabel
        /\ gdf.colour_ind =
                assign_colours_to_regions(gdf, OrderByCountThenLabel).colour_ind

\* C25: a component returns a new table and leaves the table passed in as
\* it was; for the diff engine, the caller's table has the same columns,
\* index and values after _diff_data as before the call.
C25_DiffDataLeavesCallersTableUnchanged ==
    [][(pc = "start" /\ pc' = "done") => data' = data]_vars

\* The LSOAs of the stored table and the row of one of them.
StoredLsoas == Range(df_lsoa.index)
Stored(l) == df_lsoa.rows[l]

\* C26: when some unit is selected, with catchment type 'island' every LSOA
\* of the stored table is assigned to a selected unit and lies in a region
\* that contains a selected unit; with another catchment type no LSOA is
\* left out.
C26_IslandUsesOnlySelectedUnitsAndRegions ==
    (pc \in {"done", "rerun"} /\ units_selected(df_units) # {}) =>
        IF lsoa_catchment_type = "island"
        THEN \A l \in StoredLsoas :
                /\ Stored(l).unit_postcode \in units_selected(df_units)
                /\ regions_lsoa_ew[l].region_code \in regions_selected(df_units)
        ELSE StoredLsoas = Lsoas

\* C28: with limit_to_england no LSOA of a Welsh region (LHB) is selected
\* in the result and every LSOA of an English region selected by the region
\* and unit limits stays selected; with limit_to_wales alone no LSOA of an
\* English region (SICBL) is selected; the result is there in both cases.
C28_CountryLimitClearsTheOtherCountry ==
    (limit_to_england \/ limit_to_wales) =>
        /\ pc # "raised"
        /\ pc \in {"done", "rerun"} =>
            \A l \in StoredLsoas :
                IF limit_to_england
                THEN IF regions_lsoa_ew[l].region_type = "LHB"
                     THEN Stored(l).selected = 0
                     ELSE Stored(l).selected =
                            LimitSelected(
                                find_lsoa_catchment(df_time_lsoa_to_units, teams_to_limit),
                                l, regions_to_limit(df_units, lsoa_catchment_type),
                                units_selected(df_units))
                ELSE regions_lsoa_ew[l].region_type = "SICBL" =>
                        Stored(l).selected = 0

\* C29: for the subtype 'std' a cell of a column diff_A_minus_B is missing
\* when the cells of A and of B are both missing; it is not 0.
C29_StdDiffOfTwoMissingIsMissing ==
    (IsCalled /\ TableSubtype = "std") =>
        \A pair \in DiffedPairs : \A c \in Requested : \A r \in RowIds :
            (Cell(pair[1], c, r) = Null /\ Cell(pair[2], c, r) = Null) =>
                /\ DiffCell(pair, c, r) = Null
                /\ DiffCell(pair, c, r) # Some(Real(0))

\* A std column was diffed in a row where both scenarios have no value.
C29_Witness ==
    /\ pc = "done"
    /\ TableSubtype = "std"
    /\ \E pair \in DiffedPairs : \E c \in Requested : \E r \in RowIds :
        /\ Cell(pair[1], c, r) = Null
        /\ Cell(pair[2], c, r) = Null
        /\ DiffCell(pair, c, r) = Null

(***************************************************************************)
(* Columns for the diff scenarios (stroke_maps/geo.py: create_combo_cols). *)
(*                                                                         *)
(* A scenario name is written here as the sequence of its pieces between   *)
(* underscores, the list that name.split('_') gives: 'S1' is <<"S1">> and  *)
(* 'scenario_1' is <<"scenario", "1">>.                                    *)
(***************************************************************************)
\* The scenario names in ascending order as Python compares them: 'S1' <
\* 'S2' < ... < 'scenario_1' < 'scenario_2' < ...
ComboNames ==
    [i \in 1..(2 * MaxScenarios) |->
        IF i <= MaxScenarios THEN <<ScenarioName(i)>>
        ELSE <<"scenario", ToString(i - MaxScenarios)>>]

\* combine.py line 288: f'diff_{p0}_minus_{p1}', split at its underscores.
DiffNamePieces(p0, p1) == <<"diff">> \o p0 \o <<"minus">> \o p1

\* The columns that hold numbers: is_numeric_dtype(gdf[col]).
NumericProperties == {"contains_unit"}

\* gdf.xs(scen, axis='columns', level='scenario', drop_level=False).columns
ColumnsOfScenario(df, scen) == {col \in DOMAIN df.columns : col[2] = scen}

\* Line 1212: scen_bits[3].
FourthPiece(scen_bits) == <<scen_bits[4]>>

\* Lines 1186-1252.
create_combo_cols(df, scenario) ==
    LET scen_bits == scenario
        scen1 == <<scen_bits[2]>>
        scen2 == FourthPiece(scen_bits)
        cols_to_combine == ColumnsOfScenario(df, scen1)
        numeric == {col \in cols_to_combine : col[1] \in NumericProperties}
        new == {<<col[1], scenario>> : col \in numeric}
    IN  IF cols_to_combine = {} THEN KeyError
        ELSE IF \E col \in numeric : <<col[1], scen2>> \notin DOMAIN df.columns
        THEN KeyError
        ELSE [df EXCEPT !.columns =
                [col \in DOMAIN df.columns \cup new |->
                    IF col \in new
                    THEN [r \in Range(df.index) |->
                            LET a == df.columns[<<col[1], scen1>>][r]
                                b == df.columns[<<col[1], scen2>>][r]
                            IN  IF a >= b THEN a ELSE b]
                    ELSE df.columns[col]]]

\* The region tables of two scenarios: a numeric flag and a text label
\* under each.
ComboTables ==
    {[index |-> GeoRegionIndex,
      columns |->
        [col \in {<<p, ComboNames[i]>> : p \in {"contains_unit", "short_code"},
                                         i \in {pair[1], pair[2]}} |->
            IF col[1] = "short_code" THEN [r \in Regions |-> r]
            ELSE IF col[2] = ComboNames[pair[1]] THEN f[1] ELSE f[2]]] :
        pair \in {q \in (DOMAIN ComboNames) \X (DOMAIN ComboNames) : q[1] < q[2]},
        f \in [1..2 -> [Regions -> 0..MaxValue]]}

\* The two scenarios of the table, the smaller name first, and the name
\* _diff_data gives their diff.
ComboPair(df) ==
    CHOOSE pair \in (DOMAIN ComboNames) \X (DOMAIN ComboNames) :
        /\ pair[1] < pair[2]
        /\ {col[2] : col \in DOMAIN df.columns} \cap Range(ComboNames)
                = {ComboNames[pair[1]], ComboNames[pair[2]]}
DiffScenario(df) ==
    DiffNamePieces(ComboNames[ComboPair(df)[1]], ComboNames[ComboPair(df)[2]])

InitCombo ==
    /\ pc = "start"
    /\ gdf \in ComboTables
    /\ PeripheryIdle
    /\ CatchmentIdle
    /\ UnitsIdle
    /\ CombineIdle

\* Lines 557-566 of main: create_combo_cols for the diff scenario of the
\* LSOA data.
CreateComboCols ==
    /\ pc = "start"
    /\ LET result == create_combo_cols(gdf, DiffScenario(gdf))
       IN  IF IsError(result)
           THEN pc' = "raised" /\ UNCHANGED gdf
           ELSE pc' = "done" /\ gdf' = result
    /\ UNCHANGED <<df_units_combined, df_lsoa_combined, df_regions, notGeo>>

NextCombo == CreateComboCols

SpecCombo == InitCombo /\ [][NextCombo]_vars

\* C30: for the name _diff_data gives the diff of the scenarios A and B,
\* create_combo_cols finds A and B again and writes under that name, for
\* every numeric column, the larger of the values of A and of B in each
\* row; this also for names with underscores in them.
C30_DiffNameRoundTrips ==
    /\ pc # "raised"
    /\ pc = "done" =>
        LET A == ComboNames[ComboPair(gdf)[1]]
            B == ComboNames[ComboPair(gdf)[2]]
        IN  \A p \in NumericProperties : \A r \in Regions :
                /\ <<p, DiffNamePieces(A, B)>> \in DOMAIN gdf.columns
                /\ LET a == gdf.columns[<<p, A>>][r]
                       b == gdf.columns[<<p, B>>][r]
                       d == gdf.columns[<<p, DiffNamePieces(A, B)>>][r]
                   IN  d \in {a, b} /\ d >= a /\ d >= b

====
